---- MODULE Spec2Model ----
(***************************************************************************)
(* AddBlurryImagePlaceholders (packages/optimizer/lib/transformers):       *)
(* the walk over the document body, the qualification policy, the cap on   *)
(* placeholders, and the per-element asynchronous units joined by          *)
(* Promise.all.                                                            *)
(*                                                                         *)
(* Strings whose content the code inspects (src, poster) are sequences of  *)
(* one-character strings.  An optional value (a JS value that may be       *)
(* undefined) is a sequence of length 0 (undefined) or 1 (the value).      *)
(***************************************************************************)
EXTENDS Integers, Sequences, FiniteSets, TLC

\* ------------------------------------------------------------------ bounds
MaxRuns == 2
MaxFail == 1
MaxEscLen == 3
MaxDim == 12

\* ------------------------------------------------------- program constants
MAX_BLURRED_PLACEHOLDERS == 5
PIXEL_TARGET == 60

Null == -2
Undefined == -1

\* ------------------------------------------------------------ input strings
A_JPG == <<"a", ".", "j", "p", "g">>
B_JPEG == <<"b", ".", "j", "p", "e", "g">>
X_JPEG == <<"x", "j", "p", "e", "g">>
C_PNG == <<"c", ".", "p", "n", "g">>
D_JPG_UPPER == <<"d", ".", "J", "P", "G">>
E_JPG_NODOT == <<"e", "j", "p", "g">>
EMPTY == <<>>

DOT_JPG == <<".", "j", "p", "g">>
JPEG == <<"j", "p", "e", "g">>
DOT_PNG == <<".", "p", "n", "g">>

\* String.prototype.endsWith
EndsWith(s, suffix) ==
  /\ Len(s) >= Len(suffix)
  /\ SubSeq(s, Len(s) - Len(suffix) + 1, Len(s)) = suffix

\* node.attribs[name]: <<>> when the attribute is absent (undefined)
Attr(n, name) ==
  IF name \in DOMAIN n.attribs THEN <<n.attribs[name]>> ELSE <<>>

\* ------------------------------------------------------------ element kinds
K_IMG == [tagName |-> "amp-img", attribs |-> [src |-> A_JPG, layout |-> "responsive"]]
K_IMG_JPEG == [tagName |-> "amp-img", attribs |-> [src |-> X_JPEG, layout |-> "responsive"]]
K_IMG_PNG == [tagName |-> "amp-img", attribs |-> [src |-> C_PNG, layout |-> "responsive"]]
K_IMG_UPPER == [tagName |-> "amp-img", attribs |-> [src |-> D_JPG_UPPER, layout |-> "responsive"]]
K_IMG_NODOT == [tagName |-> "amp-img", attribs |-> [src |-> E_JPG_NODOT, layout |-> "responsive"]]
K_IMG_FIXED == [tagName |-> "amp-img", attribs |-> [src |-> A_JPG, layout |-> "fixed"]]
K_IMG_NOLAYOUT == [tagName |-> "amp-img", attribs |-> [src |-> A_JPG]]
K_IMG_NOLOADING == [tagName |-> "amp-img", attribs |-> [src |-> A_JPG, layout |-> "responsive", noloading |-> EMPTY]]
K_IMG_NOSRC == [tagName |-> "amp-img", attribs |-> [layout |-> "responsive"]]
K_IMG_EMPTYSRC == [tagName |-> "amp-img", attribs |-> [src |-> EMPTY, layout |-> "responsive"]]
K_IMG_POSTER == [tagName |-> "amp-img", attribs |-> [src |-> C_PNG, poster |-> B_JPEG, layout |-> "responsive"]]
K_VIDEO == [tagName |-> "amp-video", attribs |-> [poster |-> B_JPEG]]
K_VIDEO_NOLOADING == [tagName |-> "amp-video", attribs |-> [poster |-> B_JPEG, noloading |-> EMPTY, layout |-> "fixed"]]
K_VIDEO_PNG == [tagName |-> "amp-video", attribs |-> [poster |-> C_PNG]]
K_VIDEO_SRC == [tagName |-> "amp-video", attribs |-> [src |-> A_JPG]]
K_VIDEO_EMPTYPOSTER == [tagName |-> "amp-video", attribs |-> [src |-> A_JPG, poster |-> EMPTY]]
K_DIV == [tagName |-> "div", attribs |-> [src |-> A_JPG, poster |-> B_JPEG, layout |-> "responsive"]]
K_TEMPLATE == [tagName |-> "template", attribs |-> [src |-> A_JPG, layout |-> "responsive"]]
K_PLACEHOLDER == [tagName |-> "img", attribs |-> [placeholder |-> EMPTY]]
K_BODY == [tagName |-> "body", attribs |-> [class |-> EMPTY]]

CoreKinds == {K_IMG, K_TEMPLATE, K_PLACEHOLDER}

AllKinds ==
  {K_IMG, K_IMG_JPEG, K_IMG_PNG, K_IMG_UPPER, K_IMG_NODOT, K_IMG_FIXED,
   K_IMG_NOLAYOUT, K_IMG_NOLOADING, K_IMG_NOSRC, K_IMG_EMPTYSRC, K_IMG_POSTER,
   K_VIDEO, K_VIDEO_NOLOADING, K_VIDEO_PNG, K_VIDEO_SRC, K_VIDEO_EMPTYPOSTER,
   K_DIV, K_TEMPLATE, K_PLACEHOLDER}

OddKinds == {K_IMG, K_VIDEO, K_TEMPLATE, K_PLACEHOLDER, K_IMG_PNG}

\* ------------------------------------------------------------ input trees
\* A shape gives, for each node 1..n, its parent (node 0 is body); the
\* children of a node are its nodes in increasing order, so that every shape
\* below numbers its nodes in document order.
SmallShapes ==
  {<<0>>, <<0, 0>>, <<0, 1>>, <<0, 0, 0>>, <<0, 0, 2>>, <<0, 1, 0>>, <<0, 1, 1>>,
   <<0, 1, 2>>}

PairShapes == {<<0>>, <<0, 1>>, <<0, 0>>}

BigShapes ==
  {<<0, 0, 0, 0, 0, 0, 0>>, <<0, 1, 1, 0, 0, 0, 0>>, <<0, 1, 2, 3, 4, 5>>}

RECURSIVE SortedSeq(_)
SortedSeq(S) ==
  IF S = {} THEN <<>>
  ELSE LET m == CHOOSE x \in S : \A y \in S : x <= y
       IN <<m>> \o SortedSeq(S \ {m})

Doc(shape, kinds) ==
  [i \in 0..Len(shape) |->
     [tagName |-> IF i = 0 THEN K_BODY.tagName ELSE kinds[i].tagName,
      attribs |-> IF i = 0 THEN K_BODY.attribs ELSE kinds[i].attribs,
      childNodes |-> SortedSeq({j \in 1..Len(shape) : shape[j] = i}),
      parent |-> IF i = 0 THEN Null ELSE shape[i]]]

SmallDocs ==
  UNION {{Doc(s, ks) : ks \in [1..Len(s) -> CoreKinds]} : s \in SmallShapes}

PairDocs ==
  UNION {{Doc(s, ks) : ks \in {f \in [1..Len(s) -> AllKinds] :
                                  \A i \in 2..Len(s) : f[i] \in CoreKinds}}
         : s \in PairShapes}

BigDocs ==
  UNION {{Doc(s, ks) : ks \in {f \in [1..Len(s) -> OddKinds] :
                                  Cardinality({i \in 1..Len(s) : f[i] # K_IMG}) <= 1}}
         : s \in BigShapes}

Documents == SmallDocs \cup PairDocs \cup BigDocs


\* ------------------------------------------------------------------- state
VARIABLES
  nodes,         \* the tree: node id -> [tagName, attribs, childNodes, parent]
  pc,            \* "idle", "walk", "returned", "resolved", "rejected", "threw"
  node,          \* the loop cursor of transform
  placeholders,  \* the loop counter of transform
  promises,      \* the units launched by the current run
  log,           \* the entries written by log.error
  run,           \* number of transform calls started
  failures,      \* number of launched units whose image cannot be decoded
  evaluated,     \* history: [node, accepted] for each call of the policy in this run
  treeAtStart,   \* history: the tree when the current run started
  prev,          \* history: the units of the previous run
  input,         \* history: the tree before the first run
  arg,           \* the argument of a call of a pure function
  ret,           \* the value the call returned
  called         \* whether the call has been made

\* the variables of the calls of the pure functions (escaping, sizing)
callVars == <<arg, ret, called>>

\* the variables of transform
treeVars ==
  <<nodes, pc, node, placeholders, promises, log, run, failures, evaluated,
    treeAtStart, prev, input>>

vars == <<treeVars, callVars>>

\* ------------------------------------------------- tree helpers (TreeAdapter)
IndexOf(seq, x) == CHOOSE i \in 1..Len(seq) : seq[i] = x

NextSibling(ns, n) ==
  LET p == ns[n].parent
  IN IF p = Null THEN Null
     ELSE LET cs == ns[p].childNodes
              i == IndexOf(cs, n)
          IN IF i < Len(cs) THEN cs[i + 1] ELSE Null

\* The cursor past the whole subtree of n: the first node that follows the
\* subtree in document order, Null when nothing follows it.
RECURSIVE SkipNodeAndChildren(_, _)
SkipNodeAndChildren(ns, n) ==
  IF n = Null THEN Null
  ELSE IF NextSibling(ns, n) # Null THEN NextSibling(ns, n)
  ELSE SkipNodeAndChildren(ns, ns[n].parent)

\* node.nextNode(): pre-order successor, Null at the end of the document.
NextNode(ns, n) ==
  IF Len(ns[n].childNodes) > 0 THEN ns[n].childNodes[1]
  ELSE SkipNodeAndChildren(ns, n)

\* node.appendChild(child): child becomes the last child; an absent child
\* adds nothing.
AppendChild(ns, n, child) ==
  IF child = Undefined THEN ns
  ELSE [ns EXCEPT ![n].childNodes = Append(@, child), ![child].parent = n]

\* tree.createElement('img') followed by the three attribute assignments
NewId(ns) == Cardinality(DOMAIN ns)

CreatePlaceholderImg(ns, src) ==
  [i \in DOMAIN ns \cup {NewId(ns)} |->
     IF i \in DOMAIN ns THEN ns[i]
     ELSE [tagName |-> "img",
           attribs |-> [class |-> "i-amphtml-blurry-placeholder",
                        placeholder |-> EMPTY,
                        src |-> src[1]],
           childNodes |-> <<>>,
           parent |-> Null]]

\* ---------------------------------------------------- qualification policy
\* variant: tests child.attribs.placeholder for truthiness, missing the empty value
HasPlaceholderTruthy_(ns, n) ==
  \E i \in 1..Len(ns[n].childNodes) :
    LET c == ns[ns[n].childNodes[i]]
    IN "placeholder" \in DOMAIN c.attribs /\ c.attribs.placeholder # EMPTY

HasPlaceholder_(ns, n) ==
  \E i \in 1..Len(ns[n].childNodes) :
    "placeholder" \in DOMAIN ns[ns[n].childNodes[i]].attribs

\* variant: the policy without the hasPlaceholder_ guard
ShouldAddNoGuard_(ns, n, src, tagName) ==
  IF src = <<>> \/ src = <<EMPTY>> THEN FALSE
  ELSE IF ~EndsWith(src[1], DOT_JPG) /\ ~EndsWith(src[1], JPEG) THEN FALSE
  ELSE IF tagName = "amp-img" /\ "noloading" \in DOMAIN ns[n].attribs THEN FALSE
  ELSE LET isPoster == tagName = "amp-video"
           isResponsiveImgWithLoading ==
             tagName = "amp-img" /\ Attr(ns[n], "layout") = <<"responsive">>
       IN isPoster \/ isResponsiveImgWithLoading

\* variant: the policy without the test of layout
ShouldAddAnyLayout_(ns, n, src, tagName) ==
  IF src = <<>> \/ src = <<EMPTY>> THEN FALSE
  ELSE IF HasPlaceholder_(ns, n) THEN FALSE
  ELSE IF ~EndsWith(src[1], DOT_JPG) /\ ~EndsWith(src[1], JPEG) THEN FALSE
  ELSE IF tagName = "amp-img" /\ "noloading" \in DOMAIN ns[n].attribs THEN FALSE
  ELSE tagName = "amp-video" \/ tagName = "amp-img"

ShouldAddBlurryPlaceholder_(ns, n, src, tagName) ==
  IF src = <<>> \/ src = <<EMPTY>> THEN FALSE
  ELSE IF HasPlaceholder_(ns, n) THEN FALSE
  ELSE IF ~EndsWith(src[1], DOT_JPG) /\ ~EndsWith(src[1], JPEG) THEN FALSE
  ELSE IF tagName = "amp-img" /\ "noloading" \in DOMAIN ns[n].attribs THEN FALSE
  ELSE LET isPoster == tagName = "amp-video"
           isResponsiveImgWithLoading ==
             tagName = "amp-img" /\ Attr(ns[n], "layout") = <<"responsive">>
       IN isPoster \/ isResponsiveImgWithLoading

\* the src local of one loop iteration (lines 67, 72-77)
SrcOf(ns, n) ==
  LET tagName == ns[n].tagName
      poster == Attr(ns[n], "poster")
  IN IF tagName = "amp-video" /\ poster # <<>> /\ poster # <<EMPTY>> THEN poster
     ELSE IF tagName = "amp-img" THEN Attr(ns[n], "src")
     ELSE <<>>

\* ------------------------------------------------------------- escaping
\* ESCAPE_TABLE (lines 25-32)
ESCAPE_TABLE ==
  ("#" :> <<"%", "2", "3">>) @@
  ("%" :> <<"%", "2", "5">>) @@
  (":" :> <<"%", "3", "A">>) @@
  ("<" :> <<"%", "3", "C">>) @@
  (">" :> <<"%", "3", "E">>) @@
  ("\"" :> <<"'">>)

\* ESCAPE_REGEX (line 33): the alternation of the keys of the table
EscapeRegexMatches(c) == c \in DOMAIN ESCAPE_TABLE

\* escaper (lines 34-36)
Escaper(match) == ESCAPE_TABLE[match]

\* String.prototype.replace with a global regex and a function: the text is
\* scanned once from position i; each match is replaced by the function's
\* value and the scan goes on after the match, never inside a replacement.
RECURSIVE ReplaceGlobal(_, _)
ReplaceGlobal(s, i) ==
  IF i > Len(s) THEN <<>>
  ELSE IF EscapeRegexMatches(s[i]) THEN Escaper(s[i]) \o ReplaceGlobal(s, i + 1)
  ELSE <<s[i]>> \o ReplaceGlobal(s, i + 1)

\* variant: the regex without the g flag, which replaces the first match only
RECURSIVE ReplaceFirst(_, _)
ReplaceFirst(s, i) ==
  IF i > Len(s) THEN <<>>
  ELSE IF EscapeRegexMatches(s[i]) THEN Escaper(s[i]) \o SubSeq(s, i + 1, Len(s))
  ELSE <<s[i]>> \o ReplaceFirst(s, i + 1)

EscapeFirstOnly(svg) == ReplaceFirst(svg, 1)

\* variant: one replace call per key of the table, in the order of the table,
\* so that the % of an earlier replacement is escaped again
RECURSIVE ReplaceKey(_, _, _)
ReplaceKey(s, key, i) ==
  IF i > Len(s) THEN <<>>
  ELSE IF s[i] = key THEN Escaper(key) \o ReplaceKey(s, key, i + 1)
  ELSE <<s[i]>> \o ReplaceKey(s, key, i + 1)

EscapeKeyByKey(svg) ==
  LET a == ReplaceKey(svg, "#", 1)
      b == ReplaceKey(a, "%", 1)
      c == ReplaceKey(b, ":", 1)
      d == ReplaceKey(c, "<", 1)
      e == ReplaceKey(d, ">", 1)
  IN ReplaceKey(e, "\"", 1)

\* svg.replace(ESCAPE_REGEX, escaper) (line 132)
Escape(svg) == ReplaceGlobal(svg, 1)

\* --------------------------------------------------------- one unit of work
DATA_URI_PREFIX == <<"data:image/svg+xml;charset=utf-8,">>

\* getDataURI_: jimp.read either decodes the image or fails; a failure is
\* rethrown with the path in its message (lines 171-174).
GetDataURI_(u) ==
  IF u.fails
  THEN [ok |-> FALSE,
        message |-> <<"Could not create placeholder for ", u.src, ". Reason: ">>]
  ELSE [ok |-> TRUE, message |-> <<>>]

\* what getDataURI_ resolves with (lines 164-170); the base64 text of the
\* bitmap is cut down to its scheme.
PNG_DATA_URI == <<"d", "a", "t", "a", ":", "p", "n", "g">>

\* the template literal of lines 113-126, cut down to one tag of each shape:
\* it keeps the line breaks and indentation between tags, the url(#b)
\* reference, an attribute in double quotes and the embedded data URI.
SvgTemplate(dataURI) ==
  <<"<", "s", "v", "g", ">", "\n", " ", " ", "<", "i", " ", "f", "=", "\"",
    "(", "#", "b", ")", "\"", "\n", " ", "h", "=", "\"">>
  \o dataURI \o <<"\"", ">", " ", "<", "/", "s", "v", "g", ">">>

IsWhitespace(c) == c \in {" ", "\n"}

\* svg.replace(/\s+/g, ' ') (line 130)
RECURSIVE CollapseWhitespace(_, _)
CollapseWhitespace(s, i) ==
  IF i > Len(s) THEN <<>>
  ELSE IF IsWhitespace(s[i])
       THEN IF i > 1 /\ IsWhitespace(s[i - 1])
            THEN CollapseWhitespace(s, i + 1)
            ELSE <<" ">> \o CollapseWhitespace(s, i + 1)
       ELSE <<s[i]>> \o CollapseWhitespace(s, i + 1)

\* svg.replace(/> </g, '><') (line 131)
RECURSIVE JoinTags(_, _)
JoinTags(s, i) ==
  IF i > Len(s) THEN <<>>
  ELSE IF i + 2 <= Len(s) /\ SubSeq(s, i, i + 2) = <<">", " ", "<">>
       THEN <<">", "<">> \o JoinTags(s, i + 3)
       ELSE <<s[i]>> \o JoinTags(s, i + 1)

\* lines 113-134: the value assigned to img.attribs.src
PlaceholderSrc(dataURI) ==
  DATA_URI_PREFIX \o Escape(JoinTags(CollapseWhitespace(SvgTemplate(dataURI), 1), 1))

\* the src of every placeholder of the model: all decoded bitmaps are taken
\* to yield the same data URI
PLACEHOLDER_SRC == PlaceholderSrc(PNG_DATA_URI)

\* variant: a .then that leaves out the assignment of line 134, so that the
\* img keeps the reference it was created with
ThenHandlerKeepSrc(ns, u) ==
  [rejected |-> FALSE, value |-> u.img, nodes |-> ns, logged |-> <<>>]

\* the .then of addBlurryPlaceholder_ (lines 112-136): the img gets its data
\* URI as src and is the value of the promise.
ThenHandler(ns, u) ==
  [rejected |-> FALSE,
   value |-> u.img,
   nodes |-> [ns EXCEPT ![u.img].attribs.src = PLACEHOLDER_SRC],
   logged |-> <<>>]

\* variant: a .catch that logs and throws the error again
CatchHandlerRethrow(ns, u, err) ==
  [rejected |-> TRUE,
   value |-> Undefined,
   nodes |-> ns,
   logged |-> <<[level |-> "error",
                 component |-> "[AddBlurryImagePlaceholders]",
                 message |-> err.message]>>]

\* variant: a .catch that logs and returns the img it could not fill
CatchHandlerReturnImg(ns, u, err) ==
  [rejected |-> FALSE,
   value |-> u.img,
   nodes |-> ns,
   logged |-> <<[level |-> "error",
                 component |-> "[AddBlurryImagePlaceholders]",
                 message |-> err.message]>>]

\* variant: a .catch that swallows the error without logging it
CatchHandlerSilent(ns, u, err) ==
  [rejected |-> FALSE, value |-> Undefined, nodes |-> ns, logged |-> <<>>]

\* the .catch of addBlurryPlaceholder_ (lines 137-139): logs, and fulfils the
\* promise with undefined.
CatchHandler(ns, u, err) ==
  [rejected |-> FALSE,
   value |-> Undefined,
   nodes |-> ns,
   logged |-> <<[level |-> "error",
                 component |-> "[AddBlurryImagePlaceholders]",
                 message |-> err.message]>>]

\* the promise addBlurryPlaceholder_ returns, once jimp has answered
AddBlurryPlaceholder_(ns, u) ==
  LET d == GetDataURI_(u)
  IN IF d.ok THEN ThenHandler(ns, u) ELSE CatchHandler(ns, u, d)

\* variant: a .then that gives up once some unit of the run has failed
ThenAppendUnlessFailure(r, ps, u) ==
  IF r.rejected \/ \E j \in 1..Len(ps) : ps[j].fails /\ ps[j].state # "pending"
  THEN [rejected |-> r.rejected, nodes |-> r.nodes]
  ELSE [rejected |-> FALSE, nodes |-> AppendChild(r.nodes, u.node, r.value)]

\* variant: the img is made the first child in place of the last
ThenAppendFirst(r, ps, u) ==
  IF r.rejected \/ r.value = Undefined
  THEN [rejected |-> r.rejected, nodes |-> r.nodes]
  ELSE [rejected |-> FALSE,
        nodes |-> [r.nodes EXCEPT ![u.node].childNodes = <<r.value>> \o @,
                                  ![r.value].parent = u.node]]

\* variant: the callback reads a loop variable shared by all iterations (var
\* in place of let) and so appends to the element of the last unit
ThenAppendSharedNode(r, ps, u) ==
  IF r.rejected
  THEN [rejected |-> TRUE, nodes |-> r.nodes]
  ELSE [rejected |-> FALSE,
        nodes |-> AppendChild(r.nodes, ps[Len(ps)].node, r.value)]

\* the .then of transform (lines 81-83), p being its promise: a rejection
\* of addBlurryPlaceholder_ passes through, a value is appended to the node.
ThenAppend(r, ps, u) ==
  IF r.rejected
  THEN [rejected |-> TRUE, nodes |-> r.nodes]
  ELSE [rejected |-> FALSE, nodes |-> AppendChild(r.nodes, u.node, r.value)]

\* variant: Promise.race in place of Promise.all
PromiseRace(ps) ==
  IF \E i \in 1..Len(ps) : ps[i].state = "rejected" THEN "rejected"
  ELSE IF ps = <<>> \/ \E i \in 1..Len(ps) : ps[i].state = "fulfilled" THEN "resolved"
  ELSE "pending"

\* Promise.all(promises) (line 92): rejected as soon as one promise is,
\* resolved once all are fulfilled.
PromiseAll(ps) ==
  IF \E i \in 1..Len(ps) : ps[i].state = "rejected" THEN "rejected"
  ELSE IF \A i \in 1..Len(ps) : ps[i].state = "fulfilled" THEN "resolved"
  ELSE "pending"

AllSettled(ps) == \A i \in 1..Len(ps) : ps[i].state # "pending"

\* ------------------------------------------------------------------ actions
Init ==
  /\ nodes \in Documents
  /\ pc = "idle"
  /\ node = Null
  /\ placeholders = 0
  /\ promises = <<>>
  /\ log = <<>>
  /\ run = 0
  /\ failures = 0
  /\ evaluated = {}
  /\ treeAtStart = nodes
  /\ prev = <<>>
  /\ input = nodes
  /\ arg = <<>>
  /\ ret = <<>>
  /\ called = FALSE

\* transform is called (lines 59-65); a later call starts only after the
\* previous one is over and its units have settled.
StartRun ==
  /\ run < MaxRuns
  /\ pc \in {"idle", "resolved", "rejected", "threw"}
  /\ AllSettled(promises)
  /\ pc' = "walk"
  /\ node' = 0
  /\ placeholders' = 0
  /\ promises' = <<>>
  /\ prev' = promises
  /\ run' = run + 1
  /\ evaluated' = {}
  /\ treeAtStart' = nodes
  /\ UNCHANGED <<nodes, log, failures, input>>
  /\ UNCHANGED callVars

\* variant: the cap tested with > in place of >=
CapReachedOffByOne(count) == count > MAX_BLURRED_PLACEHOLDERS

\* line 86
CapReached(count) == count >= MAX_BLURRED_PLACEHOLDERS

\* the for statement's update and test (line 65), followed by the return of
\* line 92 when the loop is left; nextNode of null throws.
Advance(from) ==
  IF from = Null THEN pc' = "threw" /\ node' = Null
  ELSE /\ node' = NextNode(nodes', from)
       /\ pc' = IF node' = Null THEN "returned" ELSE "walk"

\* one iteration on a template (lines 68-71)
WalkTemplate ==
  /\ pc = "walk"
  /\ nodes[node].tagName = "template"
  /\ nodes' = nodes
  /\ Advance(SkipNodeAndChildren(nodes, node))
  /\ UNCHANGED <<placeholders, promises, log, run, failures, evaluated,
                 treeAtStart, prev, input>>
  /\ UNCHANGED callVars

\* one iteration on a node the policy rejects (lines 72-79, 89)
WalkReject ==
  /\ pc = "walk"
  /\ nodes[node].tagName # "template"
  /\ ~ShouldAddBlurryPlaceholder_(nodes, node, SrcOf(nodes, node), nodes[node].tagName)
  /\ evaluated' = evaluated \cup {[node |-> node, accepted |-> FALSE]}
  /\ nodes' = nodes
  /\ Advance(node)
  /\ UNCHANGED <<placeholders, promises, log, run, failures, treeAtStart, prev,
                 input>>
  /\ UNCHANGED callVars

\* one iteration on a node the policy accepts (lines 72-89): the unit is
\* launched; whether its image can be decoded is the environment's choice.
WalkAccept ==
  /\ pc = "walk"
  /\ nodes[node].tagName # "template"
  /\ ShouldAddBlurryPlaceholder_(nodes, node, SrcOf(nodes, node), nodes[node].tagName)
  /\ \E f \in BOOLEAN :
       /\ f => failures < MaxFail
       /\ failures' = IF f THEN failures + 1 ELSE failures
       /\ promises' = Append(promises,
                             [node |-> node, img |-> NewId(nodes),
                              src |-> SrcOf(nodes, node)[1], fails |-> f,
                              state |-> "pending"])
  /\ evaluated' = evaluated \cup {[node |-> node, accepted |-> TRUE]}
  /\ placeholders' = placeholders + 1
  /\ nodes' = CreatePlaceholderImg(nodes, SrcOf(nodes, node))
  /\ IF CapReached(placeholders')
     THEN pc' = "returned" /\ node' = node
     ELSE Advance(node)
  /\ UNCHANGED <<log, run, treeAtStart, prev, input>>
  /\ UNCHANGED callVars

\* jimp answers for unit i and the promise chain of the unit runs
UnitSettle(i) ==
  /\ pc \in {"returned", "resolved", "rejected", "threw"}
  /\ i \in 1..Len(promises)
  /\ promises[i].state = "pending"
  /\ LET u == promises[i]
         r == AddBlurryPlaceholder_(nodes, u)
         t == ThenAppend(r, promises, u)
     IN /\ nodes' = t.nodes
        /\ log' = log \o r.logged
        /\ promises' = [promises EXCEPT ![i].state =
                          IF t.rejected THEN "rejected" ELSE "fulfilled"]
  /\ UNCHANGED <<pc, node, placeholders, run, failures, evaluated, treeAtStart,
                 prev, input>>
  /\ UNCHANGED callVars

\* the promise returned by transform settles
JoinSettle ==
  /\ pc = "returned"
  /\ PromiseAll(promises) # "pending"
  /\ pc' = PromiseAll(promises)
  /\ UNCHANGED <<nodes, node, placeholders, promises, log, run, failures,
                 evaluated, treeAtStart, prev, input>>
  /\ UNCHANGED callVars

Next ==
  \/ StartRun
  \/ WalkTemplate
  \/ WalkReject
  \/ WalkAccept
  \/ \E i \in 1..Len(promises) : UnitSettle(i)
  \/ JoinSettle

Spec == Init /\ [][Next]_vars

\* Every walk step is synchronous code and runs to completion; every decode
\* that was started answers (no decode hangs), and a promise whose inputs
\* have settled settles.
FairSpec ==
  /\ Spec
  /\ WF_vars(WalkTemplate \/ WalkReject \/ WalkAccept)
  /\ \A i \in 1..MAX_BLURRED_PLACEHOLDERS : WF_vars(UnitSettle(i))
  /\ WF_vars(JoinSettle)

\* ------------------------------------------------- vocabulary of the claims
Units == 1..Len(promises)

Settled(i) == promises[i].state # "pending"

ChildSet(ns, n) == {ns[n].childNodes[k] : k \in 1..Len(ns[n].childNodes)}

PlaceholderChildren(ns, n) ==
  {k \in 1..Len(ns[n].childNodes) :
     "placeholder" \in DOMAIN ns[ns[n].childNodes[k]].attribs}

\* the image of unit i is the last child of the unit's element
Appended(i) ==
  LET cs == nodes[promises[i].node].childNodes
  IN Len(cs) > 0 /\ cs[Len(cs)] = promises[i].img

RunOver == pc \in {"returned", "resolved", "rejected", "threw"} /\ AllSettled(promises)

\* the elements that gained a child since the current run started
Gained == {n \in DOMAIN treeAtStart : nodes[n].childNodes # treeAtStart[n].childNodes}

\* the reference of an element: src of an amp-img, poster of an amp-video
Reference(ns, n) ==
  CASE ns[n].tagName = "amp-img" -> Attr(ns[n], "src")
    [] ns[n].tagName = "amp-video" -> Attr(ns[n], "poster")
    [] OTHER -> <<>>

\* the five predicates of the qualification policy
Qualifies(ns, n) ==
  /\ Reference(ns, n) # <<>> /\ Len(Reference(ns, n)[1]) > 0
  /\ PlaceholderChildren(ns, n) = {}
  /\ \/ EndsWith(Reference(ns, n)[1], DOT_JPG)
     \/ EndsWith(Reference(ns, n)[1], JPEG)
  /\ ~(ns[n].tagName = "amp-img" /\ "noloading" \in DOMAIN ns[n].attribs)
  /\ \/ ns[n].tagName = "amp-video"
     \/ ns[n].tagName = "amp-img" /\ Attr(ns[n], "layout") = <<"responsive">>

\* n is a template or lies in the subtree of one
RECURSIVE InTemplate(_, _)
InTemplate(ns, n) ==
  IF n = Null THEN FALSE
  ELSE ns[n].tagName = "template" \/ InTemplate(ns, ns[n].parent)

\* the nodes of the subtree of n in document (pre-order) order
RECURSIVE PreOrder(_, _)
RECURSIVE PreOrderAll(_, _, _)
PreOrder(ns, n) == <<n>> \o PreOrderAll(ns, ns[n].childNodes, 1)
PreOrderAll(ns, cs, k) ==
  IF k > Len(cs) THEN <<>>
  ELSE PreOrder(ns, cs[k]) \o PreOrderAll(ns, cs, k + 1)

\* the qualifying elements outside templates, in document order
QualifyingInOrder(ns) ==
  SelectSeq(PreOrder(ns, 0), LAMBDA n : Qualifies(ns, n) /\ ~InTemplate(ns, n))

Min(a, b) == IF a < b THEN a ELSE b

FirstQualifying(ns) ==
  LET q == QualifyingInOrder(ns)
  IN {q[k] : k \in 1..Min(Len(q), MAX_BLURRED_PLACEHOLDERS)}

\* ------------------------------------------------------------------ claims

\* C1: whichever launched units fail in decode/encode, the promise returned
\* by transform is never rejected: no unit's promise is rejected, and once
\* every unit has settled the join of the units is a resolved one.
C1_FailureNeverSurfaces ==
  /\ pc # "rejected"
  /\ \A i \in Units : promises[i].state # "rejected"
  /\ RunOver => PromiseAll(promises) = "resolved"

C1_Witness ==
  pc = "resolved" /\ \E i \in Units : promises[i].fails

\* C2: a unit whose decode/encode failed leaves the child list of its
\* element exactly as it was before the run: nothing is appended to it.
C2_FailureAddsNothing ==
  \A i \in Units :
    (promises[i].fails /\ Settled(i)) =>
      nodes[promises[i].node].childNodes = treeAtStart[promises[i].node].childNodes

C2_Witness ==
  \E i \in Units : promises[i].fails /\ Settled(i) /\ pc = "resolved"

\* C3: in a run where some unit fails, every launched unit whose
\* decode/encode succeeds eventually has its placeholder appended as the last
\* child of its own element, and no step ever takes a placeholder child away
\* from an element.
C3_SiblingsStillAppend ==
  /\ \A i \in 1..MAX_BLURRED_PLACEHOLDERS :
       (/\ i \in Units
        /\ ~promises[i].fails
        /\ \E j \in Units : promises[j].fails)
       ~> (i \in Units /\ promises[i].state = "fulfilled" /\ Appended(i))
  /\ [][\A n \in DOMAIN nodes :
          \A c \in ChildSet(nodes, n) : c \in ChildSet(nodes', n)]_vars

C3_Witness ==
  \E i, j \in Units :
    /\ promises[j].fails /\ Settled(j)
    /\ ~promises[i].fails /\ promises[i].state = "fulfilled" /\ Appended(i)

\* C4: the promise returned by transform settles only after every unit
\* launched in that run has settled.
C4_JoinAfterAllUnits ==
  pc \in {"resolved", "rejected"} => AllSettled(promises)

C4_Witness ==
  /\ pc = "resolved"
  /\ Len(promises) >= 2
  /\ \E i \in Units : promises[i].fails

\* C5: a run launches at most 5 units and adds at most 5 placeholders, and
\* the walk is over as soon as the count of accepted candidates reaches 5:
\* the fifth accepted element is the last node the walk looked at.
C5_AtMostFive ==
  /\ Len(promises) <= 5
  /\ placeholders = Len(promises)
  /\ Cardinality(Gained) <= 5
  /\ placeholders >= 5 =>
       /\ pc # "walk"
       /\ node = promises[5].node
       /\ Cardinality({e \in evaluated : e.accepted}) = 5

C5_Witness ==
  /\ pc = "resolved"
  /\ Cardinality(Gained) = 5
  /\ \E n \in DOMAIN treeAtStart :
       /\ Qualifies(treeAtStart, n)
       /\ n \notin {e.node : e \in evaluated}

\* C6: when every encode of the first run succeeds, the run adds a
\* placeholder to exactly the first min(n, 5) qualifying elements (those
\* outside templates) in document order.
C6_FirstMinNQualifying ==
  (run = 1 /\ RunOver /\ \A i \in Units : ~promises[i].fails) =>
    Gained = FirstQualifying(treeAtStart)

\* C7 as stated: a second run after a first run whose encodes all succeeded
\* leaves the whole tree as the first run left it.
C7_SecondRunChangesNothing ==
  (run = 2 /\ pc = "resolved" /\ \A j \in 1..Len(prev) : ~prev[j].fails) =>
    \A n \in DOMAIN treeAtStart : nodes[n] = treeAtStart[n]

\* C7 as amended: a run that follows a run whose encodes all succeeded adds
\* nothing to any element the earlier run accepted; an element the earlier
\* run did not accept may still receive a placeholder.
C7_SecondRunSparesAccepted ==
  (run >= 2 /\ \A j \in 1..Len(prev) : ~prev[j].fails) =>
    \A j \in 1..Len(prev) :
      nodes[prev[j].node].childNodes = treeAtStart[prev[j].node].childNodes

C7_Witness ==
  /\ run = 2
  /\ pc = "resolved"
  /\ Len(prev) > 0
  /\ \A j \in 1..Len(prev) : ~prev[j].fails

\* C8: after any sequence of runs, each started after the previous one was
\* over, no element has more than one placeholder-marked child unless the
\* input already gave it that many: an element that has a placeholder-marked
\* child is never given another one.
C8_AtMostOnePlaceholder ==
  \A n \in DOMAIN input :
    \/ Cardinality(PlaceholderChildren(nodes, n)) <= 1
    \/ PlaceholderChildren(nodes, n) = PlaceholderChildren(input, n)

C8_Witness ==
  /\ run = 2
  /\ pc = "resolved"
  /\ \E j \in 1..Len(prev) :
       /\ ~prev[j].fails
       /\ Cardinality(PlaceholderChildren(nodes, prev[j].node)) = 1

\* C9: no template and no descendant of a template is evaluated by the
\* qualification policy, accepted as a candidate or counted toward the cap.
C9_TemplatesUntouched ==
  /\ \A e \in evaluated : ~InTemplate(treeAtStart, e.node)
  /\ \A i \in Units : ~InTemplate(treeAtStart, promises[i].node)

\* C10: an element the walk evaluates is accepted exactly when the five
\* predicates hold of it, and no accepted reference ends in '.png'.
C10_AcceptedIffFivePredicates ==
  /\ \A e \in evaluated : e.accepted <=> Qualifies(treeAtStart, e.node)
  /\ \A e \in evaluated : e.accepted <=> \E i \in Units : promises[i].node = e.node
  /\ \A i \in Units : ~EndsWith(promises[i].src, DOT_PNG)

C10_Witness ==
  /\ pc = "resolved"
  /\ \E e \in evaluated : e.accepted
  /\ \E e \in evaluated :
       /\ ~e.accepted
       /\ Reference(treeAtStart, e.node) # <<>>
       /\ EndsWith(Reference(treeAtStart, e.node)[1], DOT_PNG)

\* C11: each accepted candidate whose encode succeeded has gained exactly one
\* child, as its last child: an img with class i-amphtml-blurry-placeholder,
\* an empty placeholder attribute and a src that starts with
\* data:image/svg+xml;charset=utf-8, and is not the original reference.
C11_OnePlaceholderAppendedLast ==
  \A i \in Units :
    (~promises[i].fails /\ Settled(i)) =>
      LET u == promises[i]
          img == nodes[u.img]
      IN /\ nodes[u.node].childNodes = Append(treeAtStart[u.node].childNodes, u.img)
         /\ img.parent = u.node
         /\ img.tagName = "img"
         /\ img.childNodes = <<>>
         /\ DOMAIN img.attribs = {"class", "placeholder", "src"}
         /\ img.attribs.class = "i-amphtml-blurry-placeholder"
         /\ img.attribs.placeholder = EMPTY
         /\ SubSeq(img.attribs.src, 1, 1) = DATA_URI_PREFIX
         /\ img.attribs.src # u.src
         /\ img.attribs.src # DATA_URI_PREFIX \o u.src

C11_Witness ==
  \E i, j \in Units :
    /\ ~promises[i].fails /\ Settled(i)
    /\ treeAtStart[promises[i].node].childNodes # <<>>
    /\ nodes[promises[j].node].tagName = "amp-video" /\ Settled(j)
    /\ ~promises[j].fails

IsPrefix(a, b) == Len(a) <= Len(b) /\ SubSeq(b, 1, Len(a)) = a

C16_OneLogEntryPerFailure ==
  /\ Len(log) =
       failures - Cardinality({i \in Units : promises[i].fails /\ ~Settled(i)})
  /\ RunOver => Len(log) = failures
  /\ \A k \in 1..Len(log) :
       /\ log[k].level = "error"
       /\ log[k].component = "[AddBlurryImagePlaceholders]"
       /\ log[k].message[1] = "Could not create placeholder for "
       /\ Len(log[k].message[2]) > 0
  /\ \A i \in Units :
       (promises[i].fails /\ Settled(i)) =>
         \E k \in 1..Len(log) : log[k].message[2] = promises[i].src

C16_Witness ==
  /\ pc = "resolved"
  /\ Len(log) = 1
  /\ \E i, j \in Units : promises[i].fails /\ ~promises[j].fails

\* C17: the iteration on a template leaves the cursor on the first node that
\* follows the template's subtree in document order, so that this node is
\* the next one the loop body looks at.
C17_CursorLandsAfterTemplate ==
  [][(/\ pc = "walk"
      /\ nodes[node].tagName = "template"
      /\ SkipNodeAndChildren(nodes, node) # Null)
     => (pc' = "walk" /\ node' = SkipNodeAndChildren(nodes, node))]_vars

\* C18: the walk of a well-formed tree never throws, also when a template is
\* the last node of the document.
C18_WalkNeverThrows == pc # "threw"

\* the tree when the walk of the current run ended: the tree at the start
\* and the img of every unit, not yet attached
RECURSIVE TreeAfterWalk(_, _)
TreeAfterWalk(ns, k) ==
  IF k > Len(promises) THEN ns
  ELSE TreeAfterWalk(CreatePlaceholderImg(ns, <<promises[k].src>>), k + 1)

\* the settled units applied to ns one after the other in the order of launch
RECURSIVE SettledInLaunchOrder(_, _, _)
SettledInLaunchOrder(ns, ps, k) ==
  IF k > Len(promises) THEN ns
  ELSE IF ~Settled(k) THEN SettledInLaunchOrder(ns, ps, k + 1)
  ELSE LET u == promises[k]
           t == ThenAppend(AddBlurryPlaceholder_(ns, u), ps, u)
       IN SettledInLaunchOrder(t.nodes,
                               [ps EXCEPT ![k].state = promises[k].state], k + 1)

AllPending == [k \in 1..Len(promises) |-> [promises[k] EXCEPT !.state = "pending"]]

\* C19: no two units of a run target the same element, and the tree does not
\* depend on the order in which the units completed: it is the tree that the
\* settled units produce when they complete in the order of their launch.
C19_AppendsCommute ==
  /\ \A i, j \in Units : promises[i].node = promises[j].node => i = j
  /\ pc \in {"returned", "resolved", "rejected", "threw"} =>
       nodes = SettledInLaunchOrder(TreeAfterWalk(treeAtStart, 1), AllPending, 1)

C19_Witness ==
  /\ pc = "resolved"
  /\ Len(promises) >= 3
  /\ \E i \in Units : promises[i].fails
  /\ \E i \in Units : Appended(i)

\* ------------------------------------------------- the escaping step alone
\* The escaping of line 132 applied to an arbitrary string.  transform is
\* not running: its variables keep the values of a body without children.
TransformIdle ==
  /\ nodes = Doc(<<>>, <<>>)
  /\ pc = "idle"
  /\ node = Null
  /\ placeholders = 0
  /\ promises = <<>>
  /\ log = <<>>
  /\ run = 0
  /\ failures = 0
  /\ evaluated = {}
  /\ treeAtStart = nodes
  /\ prev = <<>>
  /\ input = nodes

\* the six keys of the table, a character the table produces without
\* matching ('), a character of the produced codes (2) and a plain letter
EscapeAlphabet == {"#", "%", ":", "<", ">", "\"", "'", "2", "a"}

EscapeInputs == UNION {[1..n -> EscapeAlphabet] : n \in 0..MaxEscLen}

EscInit ==
  /\ TransformIdle
  /\ arg \in EscapeInputs
  /\ ret = <<>>
  /\ called = FALSE

\* svg = svg.replace(ESCAPE_REGEX, escaper) (line 132)
EscapeCall ==
  /\ ~called
  /\ ret' = Escape(arg)
  /\ called' = TRUE
  /\ UNCHANGED <<arg, treeVars>>

EscNext == EscapeCall

EscSpec == EscInit /\ [][EscNext]_vars

\* the keys whose table entry is a three-character code
PercentEncoded == {"#", "%", ":", "<", ">"}

PercentCodes ==
  {<<"%", "2", "3">>, <<"%", "2", "5">>, <<"%", "3", "A">>, <<"%", "3", "C">>,
   <<"%", "3", "E">>}

\* where the image of the i-th input character starts in the output of a
\* single pass: every earlier character took one place, or three if it is
\* one of the five percent-encoded keys
OutputOffset(s, i) ==
  (i - 1) + 2 * Cardinality({j \in 1..(i - 1) : s[j] \in PercentEncoded})

\* C13: for every input string the escaping replaces each occurrence of
\* # % : < > " by its table entry in one pass and never escapes what it has
\* produced: the output is the concatenation, in order, of the table entry
\* of each key and of each other character unchanged; it contains none of
\* # : < > ", and every % of the output starts one of %23 %25 %3A %3C %3E.
C13_EscapeSinglePass ==
  called =>
    /\ Len(ret) = OutputOffset(arg, Len(arg) + 1)
    /\ \A i \in 1..Len(arg) :
         LET o == OutputOffset(arg, i)
         IN CASE arg[i] = "#" -> SubSeq(ret, o + 1, o + 3) = <<"%", "2", "3">>
              [] arg[i] = "%" -> SubSeq(ret, o + 1, o + 3) = <<"%", "2", "5">>
              [] arg[i] = ":" -> SubSeq(ret, o + 1, o + 3) = <<"%", "3", "A">>
              [] arg[i] = "<" -> SubSeq(ret, o + 1, o + 3) = <<"%", "3", "C">>
              [] arg[i] = ">" -> SubSeq(ret, o + 1, o + 3) = <<"%", "3", "E">>
              [] arg[i] = "\"" -> ret[o + 1] = "'"
              [] OTHER -> ret[o + 1] = arg[i]
    /\ \A k \in 1..Len(ret) : ret[k] \notin {"#", ":", "<", ">", "\""}
    /\ \A k \in 1..Len(ret) :
         ret[k] = "%" =>
           /\ k + 2 <= Len(ret)
           /\ SubSeq(ret, k, k + 2) \in PercentCodes

\* an input with two keys next to each other, one of them %, and a quote
\* has been escaped
C13_Witness ==
  /\ called
  /\ Len(arg) = 3
  /\ arg[1] = "#"
  /\ arg[2] = "%"
  /\ arg[3] = "\""
  /\ ret = <<"%", "2", "3", "%", "2", "5", "'">>

\* ------------------------------------------------------- the sizer alone
\* getBitmapDimensions_ (lines 199-217) applied to the width and height of
\* a bitmap.  The arithmetic is carried out on exact values: a number is
\* NaN, Infinity, a quotient n/d of naturals (d > 0) or the square root of
\* such a quotient.  A double differs from the exact value by a relative
\* error of the order of 2^-52, which Math.round can only see when the exact
\* value lies halfway between two integers; among SizerInputs this happens
\* for the ratios 240:1, 1:240, 240:9 and 9:240, where the doubles round as
\* the exact values do.
NaN == [kind |-> "NaN"]
Infinity == [kind |-> "Infinity"]
Ratio(n, d) == [kind |-> "ratio", n |-> n, d |-> d]
Root(n, d) == [kind |-> "root", n |-> n, d |-> d]

\* a / b for two non-negative integers (line 202): no check for b = 0
Quotient(a, b) ==
  IF b = 0 THEN (IF a = 0 THEN NaN ELSE Infinity) ELSE Ratio(a, b)

\* p / x for a positive integer p (lines 209, 215)
DivideInto(p, x) ==
  CASE x.kind = "NaN" -> NaN
    [] x.kind = "Infinity" -> Ratio(0, 1)
    [] x.kind = "ratio" -> IF x.n = 0 THEN Infinity ELSE Ratio(p * x.d, x.n)
    [] x.kind = "root" -> IF x.n = 0 THEN Infinity ELSE Root(p * p * x.d, x.n)

\* Math.sqrt (line 212)
MathSqrt(x) ==
  CASE x.kind = "NaN" -> NaN
    [] x.kind = "Infinity" -> Infinity
    [] x.kind = "ratio" -> Root(x.n, x.d)

\* the integer k with k - 1/2 <= sqrt(n/d) < k + 1/2; sqrt(n/d) is at most
\* n/d + 1
RoundRoot(n, d) ==
  CHOOSE k \in 0..(n \div d + 1) :
    /\ (k = 0 \/ (2 * k - 1) * (2 * k - 1) * d <= 4 * n)
    /\ 4 * n < (2 * k + 1) * (2 * k + 1) * d

\* Math.round (line 216): the nearest integer, halfway values upwards;
\* NaN and Infinity are returned as they are
MathRound(x) ==
  CASE x.kind = "NaN" -> NaN
    [] x.kind = "Infinity" -> Infinity
    [] x.kind = "ratio" -> Ratio((2 * x.n + x.d) \div (2 * x.d), 1)
    [] x.kind = "root" -> Ratio(RoundRoot(x.n, x.d), 1)

\* variant: the width is computed from the rounded height
GetBitmapDimensionsFromRoundedHeight_(imgWidth, imgHeight) ==
  LET ratioWH == Quotient(imgWidth, imgHeight)
      bitmapHeight == MathSqrt(DivideInto(PIXEL_TARGET, ratioWH))
      bitmapWidth == DivideInto(PIXEL_TARGET, MathRound(bitmapHeight))
  IN [completion |-> "return",
      width |-> MathRound(bitmapWidth),
      height |-> MathRound(bitmapHeight)]

\* getBitmapDimensions_ (lines 199-217): no statement of the function
\* throws, so it always completes by returning the record of line 216.
GetBitmapDimensions_(imgWidth, imgHeight) ==
  LET ratioWH == Quotient(imgWidth, imgHeight)
      bitmapHeight == MathSqrt(DivideInto(PIXEL_TARGET, ratioWH))
      bitmapWidth == DivideInto(PIXEL_TARGET, bitmapHeight)
  IN [completion |-> "return",
      width |-> MathRound(bitmapWidth),
      height |-> MathRound(bitmapHeight)]

\* image.bitmap.width and image.bitmap.height (line 158): small sizes, zero
\* included, and sizes that give ratios up to and beyond 240:1
ExtremeDims == {60, 240, 241, 1000}

SizerDims == (0..MaxDim) \cup ExtremeDims

SizerInputs == [imgWidth : SizerDims, imgHeight : SizerDims]

SizerInit ==
  /\ TransformIdle
  /\ arg \in SizerInputs
  /\ ret = <<>>
  /\ called = FALSE

\* this.getBitmapDimensions_(image.bitmap.width, image.bitmap.height) (line 158)
SizerCall ==
  /\ ~called
  /\ ret' = GetBitmapDimensions_(arg.imgWidth, arg.imgHeight)
  /\ called' = TRUE
  /\ UNCHANGED <<arg, treeVars>>

SizerNext == SizerCall

SizerSpec == SizerInit /\ [][SizerNext]_vars

PositiveInput == arg.imgWidth > 0 /\ arg.imgHeight > 0

IsPositiveInteger(x) == x.kind = "ratio" /\ x.d = 1 /\ x.n > 0

\* x is the integer sqrt(n/d) rounds to, halfway values upwards
IsRoundOfRoot(x, n, d) ==
  /\ x.kind = "ratio"
  /\ x.d = 1
  /\ (x.n = 0 \/ (2 * x.n - 1) * (2 * x.n - 1) * d <= 4 * n)
  /\ 4 * n < (2 * x.n + 1) * (2 * x.n + 1) * d

\* x is an integer nearest to sqrt(n/d): |x - sqrt(n/d)| <= 1/2
IsNearestToRoot(x, n, d) ==
  /\ x.kind = "ratio"
  /\ x.d = 1
  /\ (x.n = 0 \/ (2 * x.n - 1) * (2 * x.n - 1) * d <= 4 * n)
  /\ 4 * n <= (2 * x.n + 1) * (2 * x.n + 1) * d

\* C14: for all positive integer source dimensions, extreme aspect ratios
\* included, the sizer returns a width and a height that are both positive
\* integers.
C14_BothDimensionsPositive ==
  (called /\ PositiveInput) =>
    IsPositiveInteger(ret.width) /\ IsPositiveInteger(ret.height)

\* C15: a call of the sizer with a source height of 0 fails with a sizing
\* error, whatever the source width, instead of returning a result.
C15_ZeroHeightFails ==
  (called /\ arg.imgHeight = 0) => ret.completion = "throw"

\* C20 as stated: for positive source dimensions the height is
\* round(sqrt(60 / r)) with r = width / height of the source, and the width
\* is round(60 / h) for that rounded height h.
C20_WidthFromRoundedHeight ==
  (called /\ PositiveInput) =>
    /\ IsRoundOfRoot(ret.height, PIXEL_TARGET * arg.imgHeight, arg.imgWidth)
    /\ ret.width = MathRound(DivideInto(PIXEL_TARGET, ret.height))

\* C20 amended: for positive source dimensions the height is an integer
\* nearest to sqrt(60 / r) and the width is an integer nearest to
\* 60 / sqrt(60 / r) = sqrt(60 * r): the width is computed from the square
\* root before it is rounded.
C20_WidthFromUnroundedHeight ==
  (called /\ PositiveInput) =>
    /\ IsNearestToRoot(ret.height, PIXEL_TARGET * arg.imgHeight, arg.imgWidth)
    /\ IsNearestToRoot(ret.width, PIXEL_TARGET * arg.imgWidth, arg.imgHeight)

\* a 2 x 1 source has been sized to 11 x 5, where 60 / 5 is 12
C20_Witness ==
  /\ called
  /\ arg.imgWidth = 2
  /\ arg.imgHeight = 1
  /\ ret.height = Ratio(5, 1)
  /\ ret.width = Ratio(11, 1)
  /\ MathRound(DivideInto(PIXEL_TARGET, ret.height)) = Ratio(12, 1)

====
